---------------------------- MODULE Spec2Model ----------------------------
(* A model of src/regex.py: the regex finite state machine.               *)
(*                                                                         *)
(* The heap is a sequence of nodes; a node reference is an index into it.  *)
(* NoneRef (0) is Python's None.  Node 1 is the single StartState object   *)
(* held by the class attribute RegexFSM.curr_state; its next_states list   *)
(* is the class attribute StartState.next_states.  Both are created once,  *)
(* when the module is imported, and are shared by every RegexFSM.          *)
(* A character is a one-character string; "" is the empty string that      *)
(* check_string passes to the last check_next.                             *)
EXTENDS Integers, Sequences, FiniteSets, TLC

VARIABLES heap, pats, last
vars == <<heap, pats, last>>

(***************************************************************************)
(* Bounds and input alphabets                                              *)
(***************************************************************************)
MaxPatLen == 2
MaxCompiles == 2
MaxFreshLen == 3
MaxStrLen == 3
MaxEdges == 4
MaxDemoEdges == 12

PatChars == {"a", "b", ".", "*", "+", "é"}
StrChars == {"a", "b"}

RECURSIVE SeqsUpTo(_, _)
SeqsUpTo(S, n) ==
    IF n = 0 THEN {<<>>}
    ELSE LET shorter == SeqsUpTo(S, n - 1)
         IN  shorter \cup {Append(q, c) : q \in shorter, c \in S}

(***************************************************************************)
(* Characters                                                              *)
(***************************************************************************)
\* code point of the characters the model uses; a character outside
\* Latin-1 is written as "U+" and its code point in hexadecimal
Ord(c) ==
    CASE c = "*" -> 42
      [] c = "+" -> 43
      [] c = "." -> 46
      [] c = "4" -> 52
      [] c = "a" -> 97
      [] c = "b" -> 98
      [] c = "h" -> 104
      [] c = "i" -> 105
      [] c = "é" -> 233
      [] c = "ð" -> 240
      [] c = "U+0178" -> 376
      [] c = "U+017D" -> 381
      [] c = "U+02DC" -> 732

\* a compiler that admits every character
isascii_any(c) == TRUE

\* str.isascii() of a one-character string
isascii(c) == Ord(c) < 128

(***************************************************************************)
(* Nodes                                                                   *)
(***************************************************************************)
NoneRef == 0
StartRef == 1

\* state: the wrapped node of a StarState / PlusState (self.state);
\* sym: AsciiState.curr_sym; next: next_states (unused for a
\* TerminationState, which has no such attribute).
Node(k, sy, st, nx) == [kind |-> k, sym |-> sy, state |-> st, next |-> nx]

StartState == Node("Start", "", NoneRef, <<>>)
TerminationState == Node("Term", "", NoneRef, <<>>)
DotState == Node("Dot", "", NoneRef, <<>>)
AsciiState(symbol) == Node("Ascii", symbol, NoneRef, <<>>)
\* a StarState whose self loop is added before the wrapped node
StarState_selffirst(checking_state, self) ==
    Node("Star", "", checking_state, <<self, checking_state>>)

\* self is the index the new StarState gets
StarState(checking_state, self) ==
    Node("Star", "", checking_state, <<checking_state, self>>)

\* star is the index of the StarState the constructor creates
PlusState(checking_state, star) ==
    Node("Plus", "", checking_state, <<star>>)

\* True iff attribute next_states exists on the node
HasNextStates(n) == n.kind # "Term"

AppendNext(h, r, el) == [h EXCEPT ![r].next = Append(@, el)]

(***************************************************************************)
(* check_self                                                              *)
(* The result is "True" or "False" (the truth value of what the method     *)
(* returns) or the name of the exception it raises.  stack is the set of   *)
(* quantifier nodes whose check_self is on the call stack: the methods     *)
(* read the graph without changing it, so a call that re-enters a node on  *)
(* the stack recurses until Python raises RecursionError.                  *)
(***************************************************************************)
RECURSIVE check_self(_, _, _, _)
RECURSIVE StarState_check_self(_, _, _, _, _)

\* a StarState that asks only its wrapped node
StarState_check_self_inner(h, r, char, stack, i) ==
    check_self(h, h[r].state, char, stack)

\* StarState.check_self: the loop over self.next_states from position i
StarState_check_self(h, r, char, stack, i) ==
    IF i > Len(h[r].next) THEN "False"
    ELSE LET state == h[r].next[i]
         IN  IF state # NoneRef /\ h[state].kind = "Star"
             THEN StarState_check_self(h, r, char, stack, i + 1)
             ELSE LET v == check_self(h, state, char, stack)
                  IN  IF v = "False"
                      THEN StarState_check_self(h, r, char, stack, i + 1)
                      ELSE v

check_self(h, r, char, stack) ==
    IF r = NoneRef THEN "AttributeError"
    ELSE IF r \in stack THEN "RecursionError"
    ELSE LET n == h[r]
         IN  CASE n.kind = "Start" -> "False"
               [] n.kind = "Term" -> "True"
               [] n.kind = "Dot" -> "True"
               [] n.kind = "Ascii" -> IF n.sym = char THEN "True" ELSE "False"
               [] n.kind = "Star" ->
                    StarState_check_self(h, r, char, stack \cup {r}, 1)
               [] n.kind = "Plus" ->
                    check_self(h, n.state, char, stack \cup {r})

(***************************************************************************)
(* check_next                                                              *)
(* The result is [h, ref, err]: the heap after the call, the node returned *)
(* and "" , or NoneRef and the name of the exception raised.               *)
(***************************************************************************)
Returned(h, ref) == [h |-> h, ref |-> ref, err |-> ""]
Raised(h, err) == [h |-> h, ref |-> NoneRef, err |-> err]

\* a scan in the order of the list, first-added first
RECURSIVE ScanForwardFrom(_, _, _, _)
ScanForwardFrom(h, r, next_char, j) ==
    IF j > Len(h[r].next) THEN Raised(h, "NotImplementedError")
    ELSE LET state == h[r].next[j]
             v == check_self(h, state, next_char, {})
         IN  IF v = "True" THEN Returned(h, state)
             ELSE IF v = "False" THEN ScanForwardFrom(h, r, next_char, j + 1)
             ELSE Raised(h, v)

ScanForward(h, r, next_char, i) == ScanForwardFrom(h, r, next_char, 1)

\* for state in reversed(self.next_states): ... ; raise NotImplementedError
RECURSIVE ScanReversed(_, _, _, _)
ScanReversed(h, r, next_char, i) ==
    IF i = 0 THEN Raised(h, "NotImplementedError")
    ELSE LET state == h[r].next[i]
             v == check_self(h, state, next_char, {})
         IN  IF v = "True" THEN Returned(h, state)
             ELSE IF v = "False" THEN ScanReversed(h, r, next_char, i - 1)
             ELSE Raised(h, v)

\* a fold that guards against duplicates the wrong way round: elements
\* already folded are taken out again
Fold_toggle(h, r) ==
    LET nx == h[r].next
        tail == SubSeq(nx, 2, Len(nx))
        cur == h[nx[1]].next
        folded == \E i \in 1..Len(cur) : \E j \in 1..Len(tail) :
                      i > 2 /\ cur[i] = tail[j]
    IN  IF folded THEN [h EXCEPT ![nx[1]].next = SubSeq(cur, 1, 2)]
        ELSE [h EXCEPT ![nx[1]].next = cur \o tail]

\* a fold in the other direction: the edges of the wrapped StarState are
\* appended to the PlusState's own list
Fold_into_own(h, r) ==
    [h EXCEPT ![r].next = @ \o h[h[r].next[1]].next]

\* PlusState.check_next, first loop: every element of self.next_states[1:]
\* is appended to self.next_states[0].next_states
Fold(h, r) ==
    LET nx == h[r].next
    IN  [h EXCEPT ![nx[1]].next = @ \o SubSeq(nx, 2, Len(nx))]

State_check_next(h, r, next_char) ==
    IF ~HasNextStates(h[r]) THEN Raised(h, "AttributeError")
    ELSE ScanReversed(h, r, next_char, Len(h[r].next))

PlusState_check_next(h, r, next_char) ==
    LET h2 == Fold(h, r)
    IN  ScanReversed(h2, r, next_char, Len(h2[r].next))

check_next(h, r, next_char) ==
    IF h[r].kind = "Plus" THEN PlusState_check_next(h, r, next_char)
    ELSE State_check_next(h, r, next_char)

(***************************************************************************)
(* RegexFSM.check_string                                                   *)
(* The result is [h, out, walk]: the heap after the call, "True", "False"  *)
(* or the name of the exception that escapes, and the check_next calls the *)
(* method made, in order.                                                  *)
(***************************************************************************)
Outcome(h, out, walk) == [h |-> h, out |-> out, walk |-> walk]

\* one curr_state.check_next(char) of check_string: step is "first" (line
\* 175), "char" (line 181) or "final" (line 187); nx is its result and
\* recheck the result of the check_self of line 184 ("" when not reached)
Advance(step, from, char, nx, recheck) ==
    [step |-> step, from |-> from, char |-> char,
     to |-> nx.ref, err |-> nx.err, recheck |-> recheck]

\* the last check_next("") and the isinstance test
FinalStep(h, curr_state, walk) ==
    LET nx == check_next(h, curr_state, "")
        w == Append(walk, Advance("final", curr_state, "", nx, ""))
    IN  IF nx.err = "NotImplementedError" THEN Outcome(nx.h, "False", w)
        ELSE IF nx.err # "" THEN Outcome(nx.h, nx.err, w)
        ELSE Outcome(nx.h, IF nx.h[nx.ref].kind = "Term" THEN "True" ELSE "False", w)

RECURSIVE CharLoop(_, _, _, _, _)

\* a matcher that, on a rejected character, starts again from Start
CharLoop_restart(h, curr_state, string, i, walk) ==
    IF i > Len(string) THEN FinalStep(h, curr_state, walk)
    ELSE LET nx == check_next(h, curr_state, string[i])
             w == Append(walk, Advance("char", curr_state, string[i], nx, ""))
         IN  IF nx.err = "NotImplementedError"
             THEN CharLoop(nx.h, StartRef, string, i + 1, w)
             ELSE IF nx.err # "" THEN Outcome(nx.h, nx.err, w)
             ELSE CharLoop(nx.h, nx.ref, string, i + 1, w)

\* for char in string: from position i
CharLoop(h, curr_state, string, i, walk) ==
    IF i > Len(string) THEN FinalStep(h, curr_state, walk)
    ELSE LET nx == check_next(h, curr_state, string[i])
             rejected == Append(walk, Advance("char", curr_state, string[i], nx, ""))
         IN  IF nx.err = "NotImplementedError" THEN Outcome(nx.h, "False", rejected)
             ELSE IF nx.err # "" THEN Outcome(nx.h, nx.err, rejected)
             ELSE LET v == check_self(nx.h, nx.ref, string[i], {})
                      w == Append(walk, Advance("char", curr_state, string[i], nx, v))
                  IN  IF v = "False" THEN Outcome(nx.h, "False", w)
                      ELSE IF v # "True" THEN Outcome(nx.h, v, w)
                      ELSE CharLoop(nx.h, nx.ref, string, i + 1, w)

\* a matcher without the check_next of line 175: the loop starts at Start
check_string_once(h, string) ==
    IF Len(string) = 0 THEN Outcome(h, "IndexError", <<>>)
    ELSE CharLoop(h, StartRef, string, 1, <<>>)

check_string(h, string) ==
    IF Len(string) = 0 THEN Outcome(h, "IndexError", <<>>)
    ELSE LET nx == check_next(h, StartRef, string[1])
             w == <<Advance("first", StartRef, string[1], nx, "")>>
         IN  IF nx.err = "NotImplementedError" THEN Outcome(nx.h, "False", w)
             ELSE IF nx.err # "" THEN Outcome(nx.h, nx.err, w)
             ELSE CharLoop(nx.h, nx.ref, string, 1, w)

(***************************************************************************)
(* RegexFSM.__init__ and RegexFSM.__init_next_state                        *)
(***************************************************************************)
\* the new node is put at the end of the heap; a PlusState is followed by
\* the StarState its constructor creates
init_next_state(h, next_token, prev_state, tmp_next_state) ==
    LET new == Len(h) + 1
    IN  IF next_token = "." THEN Returned(Append(h, DotState), new)
        ELSE IF next_token = "*"
        THEN Returned(Append(h, StarState(tmp_next_state, new)), new)
        ELSE IF next_token = "+"
        THEN Returned(h \o <<PlusState(tmp_next_state, new + 1),
                             StarState(tmp_next_state, new + 1)>>, new)
        ELSE IF isascii(next_token)
        THEN Returned(Append(h, AsciiState(next_token)), new)
        ELSE Raised(h, "AttributeError")

\* a compiler that forgets the TerminationState
AppendTermination_none(h, prev_state) == h

\* prev_state.next_states.append(TerminationState())
AppendTermination(h, prev_state) ==
    AppendNext(Append(h, TerminationState), prev_state, Len(h) + 1)

\* the while loop of __init__ from position i (1-based), then the append
\* of the TerminationState.  The result is [h, err].
RECURSIVE CompileLoop(_, _, _, _, _)
CompileLoop(h, regex_expr, i, prev_state, tmp_next_state) ==
    IF i > Len(regex_expr)
    THEN [h |-> AppendTermination(h, prev_state), err |-> ""]
    ELSE LET char == regex_expr[i]
         IN  IF i + 1 <= Len(regex_expr) /\ regex_expr[i + 1] \in {"*", "+"}
             THEN LET repeated == init_next_state(h, char, NoneRef, NoneRef)
                  IN  IF repeated.err # "" THEN [h |-> repeated.h, err |-> repeated.err]
                      ELSE LET q == init_next_state(repeated.h, regex_expr[i + 1],
                                                    prev_state, repeated.ref)
                           IN  CompileLoop(AppendNext(q.h, prev_state, q.ref),
                                           regex_expr, i + 2, q.ref, q.ref)
             ELSE LET t == init_next_state(h, char, prev_state, tmp_next_state)
                  IN  IF t.err # "" THEN [h |-> t.h, err |-> t.err]
                      ELSE CompileLoop(AppendNext(t.h, prev_state, t.ref),
                                       regex_expr, i + 1, t.ref, t.ref)

\* RegexFSM(regex_expr): prev_state and tmp_next_state start as the shared
\* StartState of the class attribute curr_state
RegexFSM_init(h, regex_expr) ==
    CompileLoop(h, regex_expr, 1, StartRef, StartRef)

(***************************************************************************)
(* The process                                                             *)
(* heap: the objects; pats: the RegexFSM(...) calls made so far, with the  *)
(* exception each raised ("" for none); last: the last call made, its      *)
(* outcome and, for a check_string, the check_next calls it made.          *)
(***************************************************************************)
NoCall == [op |-> "none", fsm |-> 0, arg |-> <<>>, out |-> "", walk |-> <<>>]

Init ==
    /\ heap = <<StartState>>
    /\ pats = <<>>
    /\ last = NoCall

MaxListLen(h) ==
    LET lens == {Len(h[r].next) : r \in 1..Len(h)}
    IN  CHOOSE m \in lens : \A l \in lens : l <= m

\* fsm = RegexFSM(regex_expr)
Compile(regex_expr) ==
    LET c == RegexFSM_init(heap, regex_expr)
    IN  /\ heap' = c.h
        /\ pats' = Append(pats, [p |-> regex_expr, err |-> c.err])
        /\ last' = [op |-> "compile", fsm |-> Len(pats) + 1,
                    arg |-> regex_expr, out |-> c.err, walk |-> <<>>]

\* fsm.check_string(string), on a RegexFSM whose construction succeeded;
\* cap bounds the length the next_states lists may grow to
CheckString(fsm, string, cap) ==
    LET c == check_string(heap, string)
    IN  /\ pats[fsm].err = ""
        /\ MaxListLen(c.h) <= cap
        /\ heap' = c.h
        /\ last' = [op |-> "check", fsm |-> fsm, arg |-> string, out |-> c.out,
                    walk |-> c.walk]
        /\ UNCHANGED pats

Patterns == SeqsUpTo(PatChars, MaxPatLen)
FreshPatterns == SeqsUpTo(PatChars, MaxFreshLen)
Strings == SeqsUpTo(StrChars, MaxStrLen)

\* one process: RegexFSM objects are constructed and used in any order
NextCompile ==
    /\ Len(pats) < MaxCompiles
    /\ \E p \in Patterns : Compile(p)

NextCheck == \E f \in 1..Len(pats), s \in Strings : CheckString(f, s, MaxEdges)

Next == NextCompile \/ NextCheck

Spec == Init /\ [][Next]_vars

\* a fresh process that constructs one RegexFSM and then uses it
FreshCompile ==
    /\ pats = <<>>
    /\ \E p \in FreshPatterns : Compile(p)

NextFresh == FreshCompile \/ NextCheck

SpecFresh == Init /\ [][NextFresh]_vars

\* the demonstration under __main__: one RegexFSM("a*4.+hi"), then
\* check_string calls on the thirteen strings of the demonstration.  The
\* literal of line 209 holds four characters between "4" and "hi": the
\* code points 240, 376, 732 and 381.
DemoPattern == <<"a", "*", "4", ".", "+", "h", "i">>

DemoTrue ==
    { <<"a", "a", "a", "a", "a", "a", "4", "u", "h", "i">>,
      <<"4", "u", "h", "i">>,
      <<"4", "g", "h", "i">>,
      <<"a", "4", "!", "h", "i">>,
      <<"a", "a", "a", "a", "a", "4", ".", ".", ".", ".", "h", "i">>,
      <<"a", "4", "4", "h", "i">>,
      <<"a", "a", "a", "a", "4", "ð", "U+0178", "U+02DC", "U+017D",
        "h", "i">>,
      <<"a", "4", "w", "o", "w", "h", "i">> }

DemoFalse ==
    { <<"m", "e", "o", "w">>,
      <<"a", "a", "a", "a", "a", "h", "i">>,
      <<"a", "4", ".", "h">>,
      <<"a", "a", "a", "4", "h", "i">>,
      <<"a", "h", "i", "h", "i">> }

DemoStrings == DemoTrue \cup DemoFalse

DemoCompile ==
    /\ pats = <<>>
    /\ Compile(DemoPattern)

DemoCheck ==
    \E f \in 1..Len(pats), s \in DemoStrings : CheckString(f, s, MaxDemoEdges)

NextDemo == DemoCompile \/ DemoCheck

SpecDemo == Init /\ [][NextDemo]_vars

(***************************************************************************)
(* Properties                                                              *)
(***************************************************************************)
Compiled(p) == [p |-> p, err |-> ""]
Checked == last.op = "check"
Booleans == {"True", "False"}

\* the graph RegexFSM(p) builds in a process that constructs nothing else
Alone(p) == RegexFSM_init(<<StartState>>, p).h

NoDuplicates(q) == \A i, j \in 1..Len(q) : q[i] = q[j] => i = j

\* the StarState a PlusState wraps: the target of the fold
PlusStars(h) == {h[r].next[1] : r \in {x \in 1..Len(h) : h[x].kind = "Plus"}}

\* C1: on a successfully compiled pattern, check_string returns a boolean
\* for every candidate string: no exception escapes to the caller.
C1_ReturnsBoolean == Checked => last.out \in Booleans

\* C2: the empty pattern matches only the empty string: check_string("")
\* returns true and check_string(s) returns false for every non-empty s.
C2_EmptyPattern ==
    (Checked /\ pats = <<Compiled(<<>>)>>) =>
        last.out = (IF last.arg = <<>> THEN "True" ELSE "False")

\* C3: for the pattern "a+", check_string returns true for every non-empty
\* string made only of 'a' and false for the empty string and for "b".
OnlyAs(q) == Len(q) > 0 /\ \A i \in 1..Len(q) : q[i] = "a"

C3_PlusPattern ==
    (Checked /\ pats = <<Compiled(<<"a", "+">>)>>) =>
        /\ (OnlyAs(last.arg) => last.out = "True")
        /\ (last.arg \in {<<>>, <<"b">>} => last.out = "False")

\* C4: for the pattern "a*b", check_string returns true for any number,
\* including zero, of 'a' followed by one 'b' ("b", "ab", "aab").
AsThenB(q) ==
    /\ Len(q) > 0
    /\ q[Len(q)] = "b"
    /\ \A i \in 1..(Len(q) - 1) : q[i] = "a"

C4_StarZeroOrMore ==
    (Checked /\ pats = <<Compiled(<<"a", "*", "b">>)>> /\ AsThenB(last.arg)) =>
        last.out = "True"

C4_Witness ==
    /\ Checked
    /\ pats = <<Compiled(<<"a", "*", "b">>)>>
    /\ last.arg = <<"b">>
    /\ last.out = "True"

\* C5: for the pattern "a*4.+hi", check_string calls made in sequence on
\* one compiled graph return true for the accepted strings of the
\* demonstration (the seven the claim names and the one of line 209) and
\* false for the five rejected ones.
C5_Demonstration ==
    (Checked /\ pats = <<Compiled(DemoPattern)>>) =>
        /\ (last.arg \in DemoTrue => last.out = "True")
        /\ (last.arg \in DemoFalse => last.out = "False")

C5_Witness ==
    /\ Checked
    /\ pats = <<Compiled(DemoPattern)>>
    /\ last.arg = <<"a", "4", "w", "o", "w", "h", "i">>
    /\ last.out = "True"
    /\ \E r \in PlusStars(heap) : Len(heap[r].next) >= 5

\* C6: on one compiled graph, after any sequence of check_string calls,
\* check_string(s) has for every s the outcome it has on the graph as
\* compiled: the folds of earlier calls never change a later outcome.
C6_SameOutcome ==
    (Len(pats) = 1 /\ pats[1].err = "") =>
        /\ \A s \in Strings :
              check_string(heap, s).out = check_string(Alone(pats[1].p), s).out
        /\ (Checked => last.out = check_string(Alone(pats[1].p), last.arg).out)

C6_Witness ==
    /\ Checked
    /\ Len(pats) = 1
    /\ last.out = "True"
    /\ \E r \in PlusStars(heap) : Len(heap[r].next) >= 4

\* C7: each compiled pattern has its own graph: check_string(s) on
\* RegexFSM(p) has the outcome it has when no other RegexFSM is ever
\* constructed in the process.
C7_OwnGraph ==
    Checked => last.out = check_string(Alone(pats[last.fsm].p), last.arg).out

\* C8: no next_states list the fold of a PlusState appends to contains
\* the same node more than once.
C8_NoDuplicateEdges ==
    \A r \in PlusStars(heap) : NoDuplicates(heap[r].next)

\* C9: compilation raises an error for every pattern in which a '*' or
\* '+' is not immediately preceded by a literal or wildcard token.
BareQuantifier(p) ==
    \E i \in 1..Len(p) :
        /\ p[i] \in {"*", "+"}
        /\ (i = 1 \/ p[i - 1] \in {"*", "+"})

C9_RejectsBareQuantifier ==
    (last.op = "compile" /\ BareQuantifier(last.arg)) => last.out # ""

\* C10: a pattern with a character that is not '.', '*', '+' and is not
\* ASCII, at any position, makes compilation raise an error, and no node
\* is ever built for such a character.
Unsupported(c) == c \notin {".", "*", "+"} /\ Ord(c) >= 128

C10_UnsupportedCharRaises ==
    /\ (last.op = "compile" /\ \E i \in 1..Len(last.arg) : Unsupported(last.arg[i]))
           => last.out = "AttributeError"
    /\ \A r \in 1..Len(heap) :
           heap[r].kind = "Ascii" => ~Unsupported(heap[r].sym)

C10_Witness ==
    /\ last.op = "compile"
    /\ last.arg = <<"é", "*">>
    /\ last.out = "AttributeError"

(***************************************************************************)
(* Properties of the graph and of the walk                                 *)
(***************************************************************************)
\* what check_next is called with: a character or the empty string
Elements == StrChars \cup {""}

WellFormed(p) == ~BareQuantifier(p) /\ \A i \in 1..Len(p) : ~Unsupported(p[i])
FreshWellFormed == Len(pats) = 1 /\ pats[1].err = "" /\ WellFormed(pats[1].p)

Quantifiers(h) == {r \in 1..Len(h) : h[r].kind \in {"Star", "Plus"}}
PlusNodes(h) == {r \in 1..Len(h) : h[r].kind = "Plus"}
\* the nodes wrapped by a quantifier (self.state)
InnerNodes(h) == {h[r].state : r \in Quantifiers(h)} \ {NoneRef}

Accepts(h, r, e) == check_self(h, r, e, {}) = "True"
NotStar(h, r) == r = NoneRef \/ h[r].kind # "Star"

RECURSIVE Repeat(_, _)
Repeat(q, k) == IF k = 0 THEN <<>> ELSE q \o Repeat(q, k - 1)

\* the check_next calls of the walk made on node r
WalkCount(walk, r) == Cardinality({i \in 1..Len(walk) : walk[i].from = r})

\* the walk ended at this check_next: it raised or its re-check failed
Stopped(a) == a.err # "" \/ a.recheck \notin {"", "True"}

\* C11: a compilation that fails leaves the objects as they were: no node
\* built for the failed pattern stays linked from a Start node.
C11_AllOrNothing ==
    [][(last'.op = "compile" /\ last'.out # "") => heap' = heap]_vars

\* C12 (as claimed): check_self of a StarState or PlusState returns true
\* exactly when check_self of its wrapped node returns true (stated for
\* the graph of a well-formed pattern, where it already fails).
C12_QuantifierAsInner ==
    FreshWellFormed =>
        \A r \in Quantifiers(heap), e \in Elements :
            Accepts(heap, r, e) <=> Accepts(heap, heap[r].state, e)

\* C12 (amended): check_self of a PlusState returns true exactly when
\* check_self of its wrapped node does; check_self of a StarState returns
\* true exactly when some node of its next_states that is not a StarState
\* (the wrapped node or a continuation) accepts the element and every such
\* node before it in the list returned false.
C12_QuantifierAccepts ==
    \A r \in Quantifiers(heap), e \in Elements :
        IF heap[r].kind = "Plus"
        THEN Accepts(heap, r, e) <=> Accepts(heap, heap[r].state, e)
        ELSE LET nx == heap[r].next
             IN  Accepts(heap, r, e) <=>
                     \E i \in 1..Len(nx) :
                         /\ NotStar(heap, nx[i])
                         /\ Accepts(heap, nx[i], e)
                         /\ \A j \in 1..(i - 1) :
                                NotStar(heap, nx[j]) =>
                                    check_self(heap, nx[j], e, {}) = "False"

C12_Witness ==
    /\ FreshWellFormed
    /\ Checked
    /\ \E r \in Quantifiers(heap), e \in Elements :
           /\ heap[r].kind = "Star"
           /\ r \in PlusStars(heap)
           /\ Len(heap[r].next) > 2
           /\ Accepts(heap, r, e)
           /\ ~Accepts(heap, heap[r].state, e)

\* C13: during a match the TerminationState is selected only by the last
\* check_next(""), never by a check_next on a character of the string.
C13_TerminationOnlyAtEnd ==
    Checked =>
        \A i \in 1..Len(last.walk) :
            (last.walk[i].err = "" /\ heap[last.walk[i].to].kind = "Term")
                => last.walk[i].step = "final"

\* C14 (as claimed): after a well-formed pattern is compiled, every node
\* other than the TerminationState has a non-empty next_states.
C14_NonEmptyOutgoing ==
    FreshWellFormed =>
        \A r \in 1..Len(heap) : heap[r].kind # "Term" => Len(heap[r].next) > 0

\* C14 (amended): after a well-formed pattern is compiled, every node
\* other than the TerminationState and the nodes wrapped by a quantifier
\* has a non-empty next_states.
C14_NonEmptyButInner ==
    FreshWellFormed =>
        \A r \in 1..Len(heap) :
            (heap[r].kind # "Term" /\ r \notin InnerNodes(heap))
                => Len(heap[r].next) > 0

C14_Witness ==
    /\ FreshWellFormed
    /\ last.op = "compile"
    /\ \E r \in InnerNodes(heap) : Len(heap[r].next) = 0
    /\ \E r \in 1..Len(heap) : heap[r].kind = "Ascii" /\ Len(heap[r].next) > 0

\* C15 (as claimed): each check_next of a PlusState appends the edges of
\* its wrapped StarState to the PlusState's own list; the StarState's list
\* is the source and stays as it is.
C15_FoldIntoPlus ==
    [][last'.op = "check" =>
        \A r \in PlusNodes(heap) :
            LET star == heap[r].next[1]
            IN  /\ heap'[star].next = heap[star].next
                /\ heap'[r].next =
                       heap[r].next \o Repeat(heap[star].next,
                                              WalkCount(last'.walk, r))]_vars

\* C15 (amended): each check_next of a PlusState appends the PlusState's
\* own edges after the first (next_states[1:]) to the list of its wrapped
\* StarState before scanning; the PlusState's list is the source and stays
\* as it is, the StarState's list is the target.
C15_FoldIntoStar ==
    [][last'.op = "check" =>
        \A r \in PlusNodes(heap) :
            LET star == heap[r].next[1]
                tail == SubSeq(heap[r].next, 2, Len(heap[r].next))
            IN  /\ heap'[r].next = heap[r].next
                /\ heap'[star].next =
                       heap[star].next \o Repeat(tail,
                                                 WalkCount(last'.walk, r))]_vars

C15_Witness ==
    /\ FreshWellFormed
    /\ Checked
    /\ \E r \in PlusNodes(heap) :
           /\ WalkCount(last.walk, r) > 0
           /\ Len(heap[r].next) = 2
           /\ Len(heap[heap[r].next[1]].next) > 2

\* C16: check_next on any node the matcher stands on returns the
\* last-added node of next_states whose check_self accepts the element,
\* and signals rejection (NotImplementedError) exactly when none accepts.
C16_ScanLastAddedFirst ==
    Checked =>
        \A k \in 1..Len(last.walk) :
            LET r == last.walk[k].from
                e == last.walk[k].char
                nx == check_next(heap, r, e)
                L == nx.h[r].next
                acc == {i \in 1..Len(L) : Accepts(nx.h, L[i], e)}
            IN  IF acc # {}
                THEN /\ nx.err = ""
                     /\ \E i \in acc : nx.ref = L[i] /\ \A j \in acc : j <= i
                ELSE nx.err = "NotImplementedError"

\* C17: a check_string call changes no next_states list other than those
\* of the StarStates wrapped by a PlusState (the targets of the fold), and
\* creates no node.
C17_OnlyFoldChanges ==
    [][last'.op = "check" =>
        /\ Len(heap') = Len(heap)
        /\ \A r \in 1..Len(heap) :
               r \notin PlusStars(heap) => heap'[r] = heap[r]]_vars

C17_Witness ==
    /\ FreshWellFormed
    /\ Checked
    /\ \E r \in PlusStars(heap) : Len(heap[r].next) = 3
    /\ \E r \in 1..Len(heap) : heap[r].kind = "Ascii" /\ Len(heap[r].next) = 1

\* C18: the walk is one committed path: every check_next is made on the
\* node the previous one selected, starting at Start, and a rejection (or
\* a failed re-check) is the last step of the match, which returns false.
C18_CommittedWalk ==
    (Checked /\ Len(last.walk) > 0) =>
        LET w == last.walk
        IN  /\ w[1].from = StartRef
            /\ \A i \in 2..Len(w) :
                   w[i - 1].err = "" /\ w[i].from = w[i - 1].to
            /\ \A i \in 1..Len(w) :
                   (w[i].err = "NotImplementedError" \/ w[i].recheck = "False")
                       => i = Len(w) /\ last.out = "False"

\* a rejection after the walk passed a node that had another accepting edge
C18_Witness ==
    /\ FreshWellFormed
    /\ Checked
    /\ last.out = "False"
    /\ Len(last.walk) >= 3
    /\ last.walk[Len(last.walk)].err = "NotImplementedError"
    /\ \E i \in 1..(Len(last.walk) - 1) :
           \E x \in 1..Len(heap) :
               /\ x # last.walk[i].to
               /\ \E j \in 1..Len(heap[last.walk[i].from].next) :
                      heap[last.walk[i].from].next[j] = x
               /\ Accepts(heap, x, last.walk[i].char)

\* C19: for a non-empty string the check_next calls are, in order, one on
\* Start with string[0], one per character from string[0] on (each that
\* selects a node followed by the check_self re-check), and one with "";
\* the walk is shorter than len(string)+2 only when it stopped at a
\* rejection, a failed re-check or an exception.
AdvanceChars(string) == <<string[1]>> \o string \o <<"">>

C19_AdvanceOrder ==
    (Checked /\ Len(last.arg) > 0) =>
        LET w == last.walk
            x == AdvanceChars(last.arg)
        IN  /\ Len(w) >= 1 /\ Len(w) <= Len(x)
            /\ \A i \in 1..Len(w) :
                   /\ w[i].char = x[i]
                   /\ w[i].step = (IF i = 1 THEN "first"
                                   ELSE IF i = Len(x) THEN "final" ELSE "char")
                   /\ (w[i].step = "char" /\ w[i].err = "") => w[i].recheck # ""
                   /\ (i < Len(w) => ~Stopped(w[i]))
            /\ w[1].from = StartRef
            /\ (Len(w) < Len(x) => Stopped(w[Len(w)]))

C19_Witness ==
    /\ FreshWellFormed
    /\ Checked
    /\ Len(last.arg) >= 2
    /\ Len(last.walk) = Len(last.arg) + 2
    /\ last.walk[2].char = last.walk[1].char
    /\ last.out = "True"

\* C20: for a well-formed pattern compiled in a fresh process, no
\* check_next of a match selects a node wrapped by a quantifier or the
\* Start node; the wrapped nodes have an empty next_states, and a scan of
\* a StarState's list selects the StarState before its wrapped node.
C20_NeverInnerNorStart ==
    FreshWellFormed =>
        /\ \A r \in InnerNodes(heap) : Len(heap[r].next) = 0
        /\ \A i \in 1..Len(last.walk) :
               last.walk[i].err = "" =>
                   /\ last.walk[i].to \notin InnerNodes(heap)
                   /\ last.walk[i].to # StartRef

C20_Witness ==
    /\ FreshWellFormed
    /\ Checked
    /\ \E i \in 1..Len(last.walk) :
           LET r == last.walk[i].from
           IN  /\ heap[r].kind = "Star"
               /\ last.walk[i].to = r
               /\ Accepts(heap, heap[r].state, last.walk[i].char)

=============================================================================
